---- MODULE Spec2Model ----
(***************************************************************************)
(* State machine of struct vger (Sources/vger/vger_private.h): the arena   *)
(* cursors and counts of the current scene, the three scenes, the text    *)
(* layout cache and the frame counter.                                    *)
(*                                                                         *)
(* The inline members addCV, addxform and addPaint are translated from the *)
(* header.  The members the header only declares (fillPath, encode,       *)
(* renderCachedText, renderText, ...) and the frame protocol are modelled *)
(* from the design document.                                               *)
(***************************************************************************)
EXTENDS Integers, Sequences, FiniteSets, TLC

\* ------------------------------------------------------------ constants

NumScenesTwo == 3 - 1

\* vgerScene scenes[3]
NumScenes == 3
\* int maxPrims = 65536
maxPrims == 65536
\* int maxCvs = 1024*1024
maxCvs == 1048576
\* uint16_t xformCount / paintCount, and the uint16_t return type: 2^16 values
UInt16 == 65536
InitialFrameZero == 1 - 1

\* uint64_t currentFrame = 1
InitialFrame == 1
\* uint64_t lastFrame = 0
DefaultLastFrame == 0
\* float breakRowWidth = -1
NoWrap == -1
\* frames a submitted scene may stay in flight on the GPU
GpuLatency == 2
\* fewest points of a quadratic path, of a cubic path, of a glyph outline
MinPathPoints == 3
MinCubicPoints == 4
GlyphPoints == 3

\* ------------------------------------------------------------ bounds

\* draw calls issued in one run: of any kind, on the arenas, of text
MaxDraws == 2
MaxArenaDraws == 3
MaxTextDraws == 3
\* frames encoded in one run
MaxFrames == 3
\* distance from capacity of the arenas a run may start from
NearCap == 2

\* ------------------------------------------------------------ values

\* float2 control vertices, float3x3 matrices, vgerPaint paints, colours
Points == {1}
Matrices == {1}
Paints == {1}
Colors == {1}
\* uint16_t handles a caller may pass to fillPath, and the (paint, transform)
\* pairs it may pass to renderCachedText
Handles == {1}
HandlePairs == {<<0, 0>>, <<1, 2>>}
\* point counts of the paths submitted, the malformed ones included
PathCounts == {MinPathPoints - 1, MinPathPoints}
CubicCounts == {MinCubicPoints - 1, MinCubicPoints}

Scenes == 0 .. (NumScenes - 1)
Arenas == {"prims", "cvs", "xforms", "paints"}

\* vgerPrim: what it draws, the paint and transform it refers to by handle,
\* its control vertices (start, count) or its glyph and the line it is on.
Prim(type, paint, xform, start, count, glyph, line) ==
    [type |-> type, paint |-> paint, xform |-> xform,
     start |-> start, count |-> count, glyph |-> glyph, line |-> line]

\* ------------------------------------------------------------ buffer memory
\* One arena's memory: slots below `base` hold `fill` (the value they were
\* given before the run started), every other slot holds `zero` (the buffer
\* as allocated), and `m` holds the slots written since that differ from
\* that.

ZeroItem(arena) ==
    IF arena = "prims" THEN Prim("none", 0, 0, 0, 0, 0, 0) ELSE 0

FilledArena(arena, n, v) ==
    [base |-> n, fill |-> v, zero |-> ZeroItem(arena),
     m |-> [i \in {} |-> ZeroItem(arena)]]

FreshArena(arena) == FilledArena(arena, 0, ZeroItem(arena))

Background(a, i) == IF i < a.base THEN a.fill ELSE a.zero

Read(a, i) == IF i \in DOMAIN a.m THEN a.m[i] ELSE Background(a, i)

Write(a, i, v) ==
    IF v = Background(a, i)
    THEN [a EXCEPT !.m = [j \in (DOMAIN a.m) \ {i} |-> a.m[j]]]
    ELSE [a EXCEPT !.m = [j \in (DOMAIN a.m) \cup {i} |->
                             IF j = i THEN v ELSE a.m[j]]]

\* The values held by the first n slots of an arena.
Held(a, n) ==
    LET low == IF a.base < n THEN a.base ELSE n
        set == {j \in DOMAIN a.m : j < n}
    IN  {a.m[j] : j \in set}
        \cup (IF Cardinality({j \in set : j < low}) < low
              THEN {a.fill} ELSE {})
        \cup (IF Cardinality({j \in set : j >= low}) < n - low
              THEN {a.zero} ELSE {})

FreshScene == [a \in Arenas |-> FreshArena(a)]

\* Number of slots each buffer of a scene holds.
Capacity(arena) == IF arena = "cvs" THEN maxCvs ELSE maxPrims

\* ------------------------------------------------------------ state

VARIABLES
    curBuffer,      \* int curBuffer
    primPtr,        \* vgerPrim* primPtr, as an offset into scenes[curBuffer]
    primCount,      \* int primCount
    cvPtr,          \* float2* cvPtr, as an offset
    cvCount,        \* int cvCount
    xformCount,     \* uint16_t xformCount
    xformPtr,       \* float3x3* xformPtr, as an offset
    paintCount,     \* uint16_t paintCount
    paintPtr,       \* vgerPaint* paintPtr, as an offset
    scenes,         \* vgerScene scenes[3]: the memory of the buffers
    textCache,      \* std::unordered_map<TextLayoutKey, TextLayoutInfo>
    currentFrame,   \* uint64_t currentFrame
    oob,            \* stores made through a cursor that left its buffer
    fault,          \* the process died on such a store
    gpu,            \* per scene: frames the GPU may still read it
    pc,             \* frame protocol: "draw" | "encoded"
    draws,          \* draw calls the run may still issue
    hist,           \* per frame: the keys rendered, and by which calls
    call            \* the last call: its name, arguments, result and effect

mach == <<curBuffer, primPtr, primCount, cvPtr, cvCount, xformCount, xformPtr,
          paintCount, paintPtr, scenes, textCache, currentFrame, oob>>

vars == <<curBuffer, primPtr, primCount, cvPtr, cvCount, xformCount, xformPtr,
          paintCount, paintPtr, scenes, textCache, currentFrame, oob,
          fault, gpu, pc, draws, hist, call>>

\* The members of struct vger as one record, threaded through the methods.
Cur ==
    [curBuffer |-> curBuffer,
     primPtr |-> primPtr, primCount |-> primCount,
     cvPtr |-> cvPtr, cvCount |-> cvCount,
     xformCount |-> xformCount, xformPtr |-> xformPtr,
     paintCount |-> paintCount, paintPtr |-> paintPtr,
     scenes |-> scenes, textCache |-> textCache,
     currentFrame |-> currentFrame, oob |-> oob,
     ret |-> 0, shaped |-> 0, out |-> <<>>, made |-> <<>>]

\* ------------------------------------------------------------ arena adds

\* *(ptr) = v through a cursor at offset off of scenes[curBuffer].arena
Store(s, arena, off, v) ==
    IF off < Capacity(arena)
    THEN [s EXCEPT !.scenes[s.curBuffer][arena] = Write(@, off, v)]
    ELSE [s EXCEPT !.oob = @ \cup {<<s.curBuffer, arena, off>>}]

\* addCV that stores the point without counting it
addCVUncounted(s, p) ==
    IF s.cvCount < maxCvs
    THEN [Store(s, "cvs", s.cvPtr, p) EXCEPT !.cvPtr = @ + 1]
    ELSE s

\* void addCV(float2 p)
addCV(s, p) ==
    IF s.cvCount < maxCvs
    THEN [Store(s, "cvs", s.cvPtr, p) EXCEPT
             !.cvPtr = @ + 1,
             !.cvCount = @ + 1]
    ELSE s

\* uint16_t addxform(const matrix_float3x3& M)
addxform(s, M) ==
    IF s.xformCount < maxPrims
    THEN [Store(s, "xforms", s.xformPtr, M) EXCEPT
             !.xformPtr = @ + 1,
             !.xformCount = (@ + 1) % UInt16,
             !.ret = s.xformCount]
    ELSE [s EXCEPT !.ret = 0]

\* uint16_t addPaint(const vgerPaint& paint)
addPaint(s, paint) ==
    IF s.paintCount < maxPrims
    THEN [Store(s, "paints", s.paintPtr, paint) EXCEPT
             !.paintPtr = @ + 1,
             !.paintCount = (@ + 1) % UInt16,
             !.ret = s.paintCount]
    ELSE [s EXCEPT !.ret = 0]

\* ------------------------------------------------------------ paths

\* vgerPrim appended at primPtr
PushPrim(s, prim) ==
    IF s.primCount < maxPrims
    THEN [Store(s, "prims", s.primPtr, prim) EXCEPT
             !.primPtr = @ + 1,
             !.primCount = @ + 1,
             !.out = Append(@, prim)]
    ELSE s

\* for(i < count) addCV(cvs[i])
RECURSIVE CopyPoints(_, _)
CopyPoints(s, count) ==
    IF count = 0 THEN s
    ELSE CopyPoints(addCV(s, CHOOSE p \in Points : TRUE), count - 1)

\* The path submission pipeline: the points go to the CV arena, then one
\* primitive referring to the copied range is emitted.
SubmitPath(s, count, paint, xform, glyph, line) ==
    LET copied == CopyPoints(s, count)
    IN  PushPrim(copied,
                 Prim(IF glyph = 0 THEN "path" ELSE "glyph", paint, xform,
                      s.cvCount, count, glyph, line))

\* fillPath that takes any number of points
fillPathUnchecked(s, count, paint, M) ==
    LET x == addxform(s, M)
    IN  SubmitPath(x, count, paint, x.ret, 0, 0)

\* void fillPath(float2* cvs, int count, uint16_t paint, bool scan)
\* M is txStack.back(), the active transform.
fillPath(s, count, paint, M) ==
    IF count < MinPathPoints THEN s
    ELSE LET x == addxform(s, M)
         IN  SubmitPath(x, count, paint, x.ret, 0, 0)

\* Points of the quadratic path a cubic path of `count` points reduces to:
\* each cubic segment becomes two quadratic segments.
Tessellated(count) == 4 * ((count - 1) \div 3) + 1

\* void fillCubicPath(float2* cvs, int count, uint16_t paint, bool scan)
fillCubicPath(s, count, paint, M) ==
    IF count < MinCubicPoints THEN s
    ELSE fillPath(s, Tessellated(count), paint, M)

\* ------------------------------------------------------------ text

\* TextLayoutKey
Key(str, size, align, breakRowWidth) ==
    [str |-> str, size |-> size, align |-> align,
     breakRowWidth |-> breakRowWidth]

KeyA == Key("a", 16, 0, NoWrap)
KeyAB == Key("ab", 16, 0, NoWrap)
KeyABw == Key("ab", 16, 0, 20)
Keys == {KeyA, KeyAB, KeyABw}

\* CGGlyph of each character
Glyphs(str) == IF str = "a" THEN <<1>> ELSE <<1, 2>>

\* The text shaper (createCTLine / createCTFrame): every glyph of the string
\* with the line it falls on; a line holds the glyphs that fit the width.
Shape(key) ==
    LET g == Glyphs(key.str)
        perLine == IF key.breakRowWidth = NoWrap THEN Len(g)
                   ELSE IF key.breakRowWidth \div key.size < 1 THEN 1
                   ELSE key.breakRowWidth \div key.size
    IN  [i \in 1 .. Len(g) |-> [glyph |-> g[i], line |-> (i - 1) \div perLine]]

\* operator== without the wrap width
KeyEqNarrow(k1, k2) ==
    /\ k1.str = k2.str
    /\ k1.size = k2.size
    /\ k1.align = k2.align

\* operator== of TextLayoutKey: std::tie of the four fields
KeyEq(k1, k2) ==
    /\ k1.str = k2.str
    /\ k1.size = k2.size
    /\ k1.align = k2.align
    /\ k1.breakRowWidth = k2.breakRowWidth

\* size_t: 64-bit words, as the set of the positions of their one bits
WordBits == 64

Word(n) == {i \in 0 .. 15 : (n \div (2 ^ i)) % 2 = 1}

Xor(a, b) == (a \ b) \cup (b \ a)

Shl(a, n) == {i + n : i \in {j \in a : j + n < WordBits}}

Shr(a, n) == {i - n : i \in {j \in a : j >= n}}

\* bits i and up of a + b, given the carry into bit i
RECURSIVE PlusFrom(_, _, _, _)
PlusFrom(a, b, i, carry) ==
    IF i = WordBits THEN {}
    ELSE LET sum == (IF i \in a THEN 1 ELSE 0) + (IF i \in b THEN 1 ELSE 0) + carry
         IN  (IF sum % 2 = 1 THEN {i} ELSE {}) \cup PlusFrom(a, b, i + 1, sum \div 2)

\* a + b modulo 2^64
Plus(a, b) == PlusFrom(a, b, 0, 0)

\* 0x9e3779b9
Golden == Plus(Shl(Word(40503), 16), Word(31161))

\* std::hash<T>, which the library defines: of a string, of an int (the
\* value itself) and of a float.  The float hasher taken here sends the two
\* wrap widths of Keys to one value, so the hashes of two keys that differ
\* in the wrap width only collide.
StdHashString(str) == Word(IF str = "a" THEN 97 ELSE 3105)
StdHashInt(i) == Word(i)
StdHashFloat(f) == Word(f % 7)

\* seed ^= hasher(v) + 0x9e3779b9 + (seed<<6) + (seed>>2)
hash_combine(seed, h) ==
    Xor(seed, Plus(Plus(Plus(h, Golden), Shl(seed, 6)), Shr(seed, 2)))

\* std::hash<TextLayoutKey>: hash_combine over str, size, align, breakRowWidth
KeyHash(k) ==
    hash_combine(
        hash_combine(
            hash_combine(
                hash_combine(Word(0), StdHashString(k.str)),
                StdHashFloat(k.size)),
            StdHashInt(k.align)),
        StdHashFloat(k.breakRowWidth))

\* the hash of every key in use
HashOf == [k \in Keys |-> KeyHash(k)]

\* textCache.find(key): the entries of the key's bucket that equal the key
Find(cache, key) ==
    {k \in DOMAIN cache : HashOf[k] = HashOf[key] /\ KeyEq(k, key)}

\* TextLayoutInfo without the primitives
InfoNoPrims(lastFrame, prims) == [lastFrame |-> lastFrame, prims |-> <<>>]

\* TextLayoutInfo
Info(lastFrame, prims) == [lastFrame |-> lastFrame, prims |-> prims]

\* an assignment that leaves the cache as it was
InsertNothing(cache, key, info) == cache

\* textCache[key] = info
Insert(cache, key, info) ==
    [k \in (DOMAIN cache) \cup {key} |-> IF k = key THEN info ELSE cache[k]]

\* Copy of the cached primitives to the output, with the caller's handles.
RECURSIVE CopyPrims(_, _, _, _)
CopyPrims(s, prims, paint, xform) ==
    IF prims = <<>> THEN s
    ELSE CopyPrims(PushPrim(s, [Head(prims) EXCEPT !.paint = paint,
                                                   !.xform = xform]),
                   Tail(prims), paint, xform)

\* bool renderCachedText(const TextLayoutKey& key, uint16_t paint, uint16_t xform)
renderCachedText(s, key, paint, xform) ==
    IF Find(s.textCache, key) # {}
    THEN LET k == CHOOSE k \in Find(s.textCache, key) : TRUE
             stamped == [s EXCEPT !.textCache[k].lastFrame = s.currentFrame]
         IN  [CopyPrims(stamped, s.textCache[k].prims, paint, xform)
                 EXCEPT !.ret = TRUE]
    ELSE [s EXCEPT !.ret = FALSE]

\* void renderGlyphPath(CGGlyph glyph, uint16_t paint, float2 position, uint16_t xform)
renderGlyphPath(s, glyph, paint, line, xform) ==
    SubmitPath(s, GlyphPoints, paint, xform, glyph, line)

\* void renderTextLine(CTLineRef line, TextLayoutInfo& textInfo, uint16_t paint,
\*                     float2 offset, float scale, uint16_t xform)
\* over every line of the shaped text; the primitives made are s.made.
RECURSIVE renderTextLine(_, _, _, _)
renderTextLine(s, shaped, paint, xform) ==
    IF shaped = <<>> THEN s
    ELSE LET g == Head(shaped)
             prim == Prim("glyph", paint, xform, s.cvCount, GlyphPoints,
                          g.glyph, g.line)
             r == renderGlyphPath(s, g.glyph, paint, g.line, xform)
         IN  renderTextLine([r EXCEPT !.made = Append(@, prim)],
                            Tail(shaped), paint, xform)

\* void renderText(const char* str, float4 color, int align)
\* void renderTextBox(const char* str, float breakRowWidth, float4 color, int align)
renderText(s, key, color, M) ==
    LET p == addPaint(s, color)
        x == addxform(p, M)
        hit == renderCachedText(x, key, p.ret, x.ret)
    IN  IF hit.ret THEN hit
        ELSE LET r == renderTextLine([x EXCEPT !.shaped = @ + 1],
                                     Shape(key), p.ret, x.ret)
             IN  [r EXCEPT !.textCache =
                      Insert(@, key, Info(s.currentFrame, r.made)),
                      !.ret = FALSE]

\* ------------------------------------------------------------ frames

\* The prune pass: every entry whose lastFrame is not the current frame goes.
Prune(cache, frame) ==
    [k \in {k \in DOMAIN cache : cache[k].lastFrame = frame} |-> cache[k]]

\* void encode(id<MTLCommandBuffer> buf, MTLRenderPassDescriptor* pass)
\* void encodeTileRender(id<MTLCommandBuffer> buf, id<MTLTexture> renderTexture)
encode(s) ==
    [s EXCEPT !.textCache = Prune(@, s.currentFrame),
              !.currentFrame = @ + 1]

\* advance() leaving the primitive arena as it was
advanceKeepPrims(s) ==
    [s EXCEPT !.curBuffer = (@ + 1) % NumScenes,
              !.cvPtr = 0, !.cvCount = 0,
              !.xformPtr = 0, !.xformCount = 0,
              !.paintPtr = 0, !.paintCount = 0]

\* advance(): the next scene becomes current and its four arenas are reset.
advance(s) ==
    [s EXCEPT !.curBuffer = (@ + 1) % NumScenes,
              !.primPtr = 0, !.primCount = 0,
              !.cvPtr = 0, !.cvCount = 0,
              !.xformPtr = 0, !.xformCount = 0,
              !.paintPtr = 0, !.paintCount = 0]

\* ------------------------------------------------------------ history

\* A primitive without the handles it refers to.
Geometry(prim) == [prim EXCEPT !.paint = 0, !.xform = 0]

Geometries(prims) == [i \in 1 .. Len(prims) |-> Geometry(prims[i])]

NoHist ==
    [now |-> {}, last |-> {}, before |-> {},
     first |-> [k \in {} |-> <<>>],
     shapes |-> [k \in Keys |-> 0],
     bufs |-> <<>>,
     subs |-> [base |-> 0, item |-> ZeroItem("prims"), seq |-> <<>>]]

NoCall == [op |-> "none"]

\* A call had the primitives `out` accepted: the current buffer has taken,
\* since it became current, subs.base times subs.item and then subs.seq.
Submitted(h, out) == [h EXCEPT !.subs.seq = @ \o out]

\* A rendering of `key` appended `out` and invoked the shaper `shaped` times.
Rendered(h, key, out, shaped) ==
    [Submitted(h, out) EXCEPT !.now = @ \cup {key},
              !.first = IF key \in DOMAIN @ THEN @
                        ELSE [k \in (DOMAIN @) \cup {key} |->
                                 IF k = key THEN Geometries(out) ELSE @[k]],
              !.shapes[key] = @ + shaped]

\* ------------------------------------------------------------ initial states

\* The state the constructor leaves: the members' default initialisers,
\* the cursors at the start of scenes[0], nothing cached.
Fresh ==
    [curBuffer |-> 0,
     primPtr |-> 0, primCount |-> 0,
     cvPtr |-> 0, cvCount |-> 0,
     xformCount |-> 0, xformPtr |-> 0,
     paintCount |-> 0, paintPtr |-> 0,
     scenes |-> [b \in Scenes |-> FreshScene],
     textCache |-> [k \in {} |-> Info(DefaultLastFrame, <<>>)],
     currentFrame |-> InitialFrame, oob |-> {},
     ret |-> 0, shaped |-> 0, out |-> <<>>, made |-> <<>>]

\* The first frame after n calls of addCV(p) with the same point.
AfterAddCVs(n, p) ==
    [Fresh EXCEPT !.cvPtr = n, !.cvCount = n,
                  !.scenes[0]["cvs"] = FilledArena("cvs", n, p)]

\* The first frame after n calls of addxform(M) with the same matrix.
AfterAddXforms(n, M) ==
    [Fresh EXCEPT !.xformPtr = n, !.xformCount = n % UInt16,
                  !.scenes[0]["xforms"] = FilledArena("xforms", n, M)]

\* The first frame after n calls of addPaint(paint) with the same paint.
AfterAddPaints(n, paint) ==
    [Fresh EXCEPT !.paintPtr = n, !.paintCount = n % UInt16,
                  !.scenes[0]["paints"] = FilledArena("paints", n, paint)]

\* The first frame after renderText of the one-glyph key, which made paint 0
\* and transform 0, and n - 1 calls of renderCachedText(key, 0, 0).
AfterCachedTexts(n) ==
    LET r == renderText(Fresh, KeyA, 1, 1)
    IN  [r EXCEPT !.primPtr = n, !.primCount = n,
                  !.scenes[0]["prims"] =
                      FilledArena("prims", n, r.made[1]),
                  !.ret = 0, !.shaped = 0, !.out = <<>>, !.made = <<>>]

Starts == {"constructed", "cvs", "xforms", "paints", "prims"}

StartState(sc) ==
    CASE sc = "constructed" -> Fresh
      [] sc = "cvs" -> AfterAddCVs(maxCvs - NearCap, 1)
      [] sc = "xforms" -> AfterAddXforms(maxPrims - NearCap, 1)
      [] sc = "paints" -> AfterAddPaints(maxPrims - NearCap, 1)
      [] sc = "prims" -> AfterCachedTexts(maxPrims - NearCap)

StartHist(sc) ==
    IF sc = "prims"
    THEN LET r == renderText(Fresh, KeyA, 1, 1)
         IN  [Rendered(NoHist, KeyA, r.out, 1) EXCEPT
                 !.subs = [base |-> maxPrims - NearCap, item |-> r.made[1],
                           seq |-> <<>>]]
    ELSE NoHist

Load(s) ==
    /\ curBuffer = s.curBuffer
    /\ primPtr = s.primPtr /\ primCount = s.primCount
    /\ cvPtr = s.cvPtr /\ cvCount = s.cvCount
    /\ xformPtr = s.xformPtr /\ xformCount = s.xformCount
    /\ paintPtr = s.paintPtr /\ paintCount = s.paintCount
    /\ scenes = s.scenes
    /\ textCache = s.textCache
    /\ currentFrame = s.currentFrame
    /\ oob = s.oob

InitFrom(starts, budget) ==
    \E sc \in starts :
        /\ Load(StartState(sc))
        /\ hist = StartHist(sc)
        /\ fault = FALSE
        /\ gpu = [b \in Scenes |-> 0]
        /\ pc = "draw"
        /\ draws = budget
        /\ call = NoCall

Init == InitFrom({"constructed"}, MaxDraws)

\* ------------------------------------------------------------ actions

\* The members take the values the call left; a store outside the buffers
\* may end the process.
Commit(r) ==
    /\ curBuffer' = r.curBuffer
    /\ primPtr' = r.primPtr /\ primCount' = r.primCount
    /\ cvPtr' = r.cvPtr /\ cvCount' = r.cvCount
    /\ xformPtr' = r.xformPtr /\ xformCount' = r.xformCount
    /\ paintPtr' = r.paintPtr /\ paintCount' = r.paintCount
    /\ scenes' = r.scenes
    /\ textCache' = r.textCache
    /\ currentFrame' = r.currentFrame
    /\ oob' = r.oob
    /\ IF r.oob # oob THEN fault' \in BOOLEAN ELSE fault' = fault

\* A draw call of the frame being written.
CanDraw == ~fault /\ pc = "draw" /\ draws > 0

Drawn(r, c) ==
    /\ Commit(r)
    /\ draws' = draws - 1
    /\ call' = c
    /\ UNCHANGED <<gpu, pc>>

AddCV ==
    /\ CanDraw
    /\ \E p \in Points :
        LET r == addCV(Cur, p)
        IN  /\ Drawn(r, [op |-> "addCV", arg |-> p])
            /\ UNCHANGED hist

AddXform ==
    /\ CanDraw
    /\ \E M \in Matrices :
        LET r == addxform(Cur, M)
        IN  /\ Drawn(r, [op |-> "addxform", arg |-> M, ret |-> r.ret])
            /\ UNCHANGED hist

AddPaint ==
    /\ CanDraw
    /\ \E paint \in Paints :
        LET r == addPaint(Cur, paint)
        IN  /\ Drawn(r, [op |-> "addPaint", arg |-> paint, ret |-> r.ret])
            /\ UNCHANGED hist

FillPath ==
    /\ CanDraw
    /\ \E count \in PathCounts, paint \in Handles, M \in Matrices :
        LET r == fillPath(Cur, count, paint, M)
        IN  /\ Drawn(r, [op |-> "fillPath", count |-> count, paint |-> paint,
                         out |-> r.out])
            /\ hist' = Submitted(hist, r.out)

FillCubicPath ==
    /\ CanDraw
    /\ \E count \in CubicCounts, paint \in Handles, M \in Matrices :
        LET r == fillCubicPath(Cur, count, paint, M)
        IN  /\ Drawn(r, [op |-> "fillCubicPath", count |-> count,
                         paint |-> paint, out |-> r.out])
            /\ hist' = Submitted(hist, r.out)

RenderText ==
    /\ CanDraw
    /\ \E key \in {k \in Keys : k.breakRowWidth = NoWrap},
          color \in Colors, M \in Matrices :
        LET r == renderText(Cur, key, color, M)
        IN  /\ Drawn(r, [op |-> "renderText", key |-> key, hit |-> r.ret,
                         out |-> r.out, shaped |-> r.shaped])
            /\ hist' = Rendered(hist, key, r.out, r.shaped)

RenderTextBox ==
    /\ CanDraw
    /\ \E key \in {k \in Keys : k.breakRowWidth # NoWrap},
          color \in Colors, M \in Matrices :
        LET r == renderText(Cur, key, color, M)
        IN  /\ Drawn(r, [op |-> "renderTextBox", key |-> key, hit |-> r.ret,
                         out |-> r.out, shaped |-> r.shaped])
            /\ hist' = Rendered(hist, key, r.out, r.shaped)

RenderCachedText ==
    /\ CanDraw
    /\ \E key \in Keys, h \in HandlePairs :
        LET paint == h[1]
            xform == h[2]
            r == renderCachedText(Cur, key, paint, xform)
        IN  /\ Drawn(r, [op |-> "renderCachedText", key |-> key,
                         paint |-> paint, xform |-> xform, ret |-> r.ret,
                         out |-> r.out, shaped |-> r.shaped])
            /\ hist' = IF r.ret THEN Rendered(hist, key, r.out, r.shaped)
                       ELSE hist

\* The frame is handed to the GPU, which reads the current scene for at
\* most GpuLatency frames (gpu counts the frames it has left); the text
\* cache is pruned and the frame counted.
Encoded(op) ==
    /\ ~fault /\ pc = "draw"
    /\ currentFrame < InitialFrame + MaxFrames
    /\ Commit(encode(Cur))
    /\ gpu' = [b \in Scenes |->
                   IF b = curBuffer THEN GpuLatency
                   ELSE IF gpu[b] > 0 THEN gpu[b] - 1 ELSE 0]
    /\ pc' = "encoded"
    /\ hist' = [hist EXCEPT !.now = {}, !.last = hist.now,
                            !.before = hist.last,
                            !.first = [k \in {} |-> <<>>],
                            !.shapes = [k \in Keys |-> 0]]
    /\ call' = [op |-> op]
    /\ UNCHANGED draws

Encode == Encoded("encode")

EncodeTileRender == Encoded("encodeTileRender")

Advance ==
    /\ ~fault /\ pc = "encoded"
    /\ Commit(advance(Cur))
    /\ pc' = "draw"
    /\ hist' = [hist EXCEPT !.bufs = Append(@, curBuffer),
                             !.subs = NoHist.subs]
    /\ call' = [op |-> "advance"]
    /\ UNCHANGED <<gpu, draws>>

\* The GPU finishes reading a submitted scene, at a time of its own.
GpuDone ==
    /\ \E b \in Scenes :
        /\ gpu[b] > 0
        /\ gpu' = [gpu EXCEPT ![b] = 0]
    /\ UNCHANGED <<mach, fault, pc, draws, hist, call>>

Next ==
    \/ AddCV
    \/ AddXform
    \/ AddPaint
    \/ FillPath
    \/ FillCubicPath
    \/ RenderText
    \/ RenderTextBox
    \/ RenderCachedText
    \/ Encode
    \/ EncodeTileRender
    \/ Advance
    \/ GpuDone

Spec == Init /\ [][Next]_vars

\* The arenas, from the constructed state and from frames that have nearly
\* filled one of them.
InitArena == InitFrom(Starts, MaxArenaDraws)

NextArena ==
    \/ AddCV
    \/ AddXform
    \/ AddPaint
    \/ FillPath
    \/ FillCubicPath
    \/ Encode
    \/ Advance

SpecArena == InitArena /\ [][NextArena]_vars

\* The text cache, from the constructed state and from a frame whose cached
\* text has nearly filled the primitive arena.
InitText == InitFrom({"constructed", "prims"}, MaxTextDraws)

NextText ==
    \/ RenderText
    \/ RenderTextBox
    \/ RenderCachedText
    \/ Encode
    \/ Advance

SpecText == InitText /\ [][NextText]_vars

\* ------------------------------------------------------------ claims

DrawOps ==
    {"addCV", "addxform", "addPaint", "fillPath", "fillCubicPath",
     "renderText", "renderTextBox", "renderCachedText"}

\* The step was a call of op.
Called(op) == call'.op = op /\ draws' = draws - 1

\* C1: in every arena of the current buffer the write cursor's offset from
\* the start of the arena never exceeds the arena's capacity (maxCvs for the
\* control vertices, maxPrims for the transforms and the paints).
C1_CursorWithinCapacity ==
    /\ cvPtr <= maxCvs
    /\ xformPtr <= maxPrims
    /\ paintPtr <= maxPrims

\* C2: once an arena holds as many items as its capacity its count equals
\* the capacity, and an add (addCV, addxform, addPaint, the primitive of a
\* path) issued then is a no-op: cursor, count and buffer memory stay as
\* they are.
C2_AddAtCapacityIsNoOp ==
    [][/\ (Called("addCV") /\ cvPtr' = maxCvs) => cvCount' = maxCvs
       /\ (Called("addCV") /\ cvPtr = maxCvs) =>
            (cvPtr' = cvPtr /\ cvCount' = cvCount
             /\ scenes' = scenes /\ oob' = oob)
       /\ (Called("addxform") /\ xformPtr' = maxPrims) =>
            xformCount' = maxPrims
       /\ (Called("addxform") /\ xformPtr = maxPrims) =>
            (xformPtr' = xformPtr /\ xformCount' = xformCount
             /\ scenes' = scenes /\ oob' = oob)
       /\ (Called("addPaint") /\ paintPtr' = maxPrims) =>
            paintCount' = maxPrims
       /\ (Called("addPaint") /\ paintPtr = maxPrims) =>
            (paintPtr' = paintPtr /\ paintCount' = paintCount
             /\ scenes' = scenes /\ oob' = oob)
       /\ (Called("fillPath") /\ primPtr' = maxPrims) =>
            primCount' = maxPrims
       /\ (Called("fillPath") /\ primPtr = maxPrims) =>
            (primPtr' = primPtr /\ primCount' = primCount
             /\ scenes'[curBuffer]["prims"] = scenes[curBuffer]["prims"])]_vars

\* C3: every addxform / addPaint call that writes its item returns the index
\* of the slot it wrote, the number of items written to the arena earlier in
\* the frame, so no two writing calls of a frame return the same handle.
C3_HandleIsSlotWritten ==
    [][/\ (Called("addxform") /\ xformPtr' = xformPtr + 1) =>
            call'.ret = xformPtr
       /\ (Called("addPaint") /\ paintPtr' = paintPtr + 1) =>
            call'.ret = paintPtr]_vars

\* C9: a draw operation writes only into the arenas of scenes[curBuffer]:
\* no store leaves them, and the other two scenes keep their contents.
C9_DrawsWriteCurrentSceneOnly ==
    [][(call'.op \in DrawOps /\ draws' = draws - 1) =>
            /\ oob' = oob
            /\ \A b \in Scenes \ {curBuffer} : scenes'[b] = scenes[b]]_vars

\* C4: after the prune pass of a frame, every key drawn in that frame is in
\* the text cache, and every key drawn in the frame before but not in that
\* frame is absent from it.
C4_PruningLaw ==
    pc = "encoded" =>
        \A k \in Keys :
            /\ k \in hist.last => k \in DOMAIN textCache
            /\ k \in hist.before \ hist.last => k \notin DOMAIN textCache

C4_Witness ==
    /\ pc = "encoded"
    /\ \E k1, k2 \in Keys :
        /\ k1 \in hist.before \ hist.last
        /\ k1 \notin DOMAIN textCache
        /\ k2 \in hist.before \cap hist.last
        /\ k2 \in DOMAIN textCache

\* The step put `out` at the end of the current primitive arena.
Appended(out) ==
    /\ primCount' = primCount + Len(out)
    /\ \A i \in 1 .. Len(out) :
        Read(scenes'[curBuffer]["prims"], primCount + i - 1) = out[i]

\* The step rendered, by renderText or renderTextBox, a key already
\* rendered in this frame.
RenderedAgain ==
    /\ Called("renderText") \/ Called("renderTextBox")
    /\ call'.key \in hist.now

\* C5 as stated: the second rendering of a key in a frame takes the
\* cache-hit path, does not invoke the shaper, and appends the primitive
\* sequence the first one appended (handles apart).
C5_RoundTripAlways ==
    [][RenderedAgain =>
            /\ call'.hit
            /\ call'.shaped = 0
            /\ hist'.shapes[call'.key] <= 1
            /\ Appended(call'.out)
            /\ Geometries(call'.out) = hist.first[call'.key]]_vars

\* C5, amended: the same, while the primitive arena has room for the
\* sequence; what does not fit is dropped.
C5_RoundTrip ==
    [][RenderedAgain =>
            /\ call'.hit
            /\ call'.shaped = 0
            /\ hist'.shapes[call'.key] <= 1
            /\ Appended(call'.out)
            /\ primCount + Len(Shape(call'.key)) <= maxPrims =>
                   Geometries(call'.out) = hist.first[call'.key]]_vars

C5_Witness ==
    /\ call.op \in {"renderText", "renderTextBox"}
    /\ call.hit
    /\ hist.shapes[call.key] = 1
    /\ Len(call.out) = Len(Shape(call.key))
    /\ Geometries(call.out) = hist.first[call.key]

\* The cached primitives with the caller's handles.
Rehandled(prims, paint, xform) ==
    [i \in 1 .. Len(prims) |->
        [prims[i] EXCEPT !.paint = paint, !.xform = xform]]

Take(seq, n) == [i \in 1 .. (IF n < Len(seq) THEN n ELSE Len(seq)) |-> seq[i]]

\* What renderCachedText leaves on a miss: the cache and the arenas.
MissUnchanged ==
    UNCHANGED <<textCache, scenes, oob, primPtr, primCount, cvPtr, cvCount,
                xformPtr, xformCount, paintPtr, paintCount>>

\* C6 as stated: on a hit renderCachedText returns true, appends the cached
\* primitives with the caller's handles and stamps the entry with
\* currentFrame; on a miss it returns false and changes nothing.
C6_CachedTextAlways ==
    [][Called("renderCachedText") =>
            IF call'.key \in DOMAIN textCache
            THEN /\ call'.ret = TRUE
                 /\ call'.out = Rehandled(textCache[call'.key].prims,
                                          call'.paint, call'.xform)
                 /\ Appended(call'.out)
                 /\ call'.key \in DOMAIN textCache'
                 /\ textCache'[call'.key].lastFrame = currentFrame
            ELSE /\ call'.ret = FALSE
                 /\ MissUnchanged]_vars

\* C6, amended: on a hit it appends as many of the cached primitives as the
\* primitive arena has room for.
C6_CachedText ==
    [][Called("renderCachedText") =>
            IF call'.key \in DOMAIN textCache
            THEN /\ call'.ret = TRUE
                 /\ call'.out = Take(Rehandled(textCache[call'.key].prims,
                                               call'.paint, call'.xform),
                                     maxPrims - primCount)
                 /\ Appended(call'.out)
                 /\ call'.key \in DOMAIN textCache'
                 /\ textCache'[call'.key].lastFrame = currentFrame
                 /\ textCache'[call'.key].prims = textCache[call'.key].prims
            ELSE /\ call'.ret = FALSE
                 /\ MissUnchanged]_vars

C6_Witness ==
    /\ call.op = "renderCachedText"
    /\ call.ret = TRUE
    /\ call.key \in DOMAIN textCache
    /\ textCache[call.key].lastFrame = currentFrame
    /\ call.out # <<>>
    /\ call.out[1].paint = call.paint
    /\ textCache[call.key].prims[1].paint # call.paint
    /\ textCache[call.key].prims[1].xform # call.xform

\* C7: the scene open for writing is never one the GPU may still be
\* reading: advance() only makes current a scene that is idle.
C7_NoWriteIntoInFlightScene ==
    pc = "draw" => gpu[curBuffer] = 0

C7_Witness ==
    /\ call.op = "advance"
    /\ Len(hist.bufs) = 3
    /\ gpu[curBuffer] = 0
    /\ \E b \in Scenes : gpu[b] = GpuLatency

\* C8: advance() sets the index to (index + 1) mod 3 and zeroes the four
\* counts; the index stays in 0..2 and is back at its value after 3 calls.
C8_AdvanceCyclic ==
    /\ curBuffer \in 0 .. 2
    /\ call.op = "advance" =>
        /\ curBuffer = (hist.bufs[Len(hist.bufs)] + 1) % 3
        /\ primCount = 0 /\ cvCount = 0 /\ xformCount = 0 /\ paintCount = 0
        /\ Len(hist.bufs) >= 3 => curBuffer = hist.bufs[Len(hist.bufs) - 2]

C8_Witness ==
    /\ call.op = "advance"
    /\ Len(hist.bufs) = 3
    /\ curBuffer = hist.bufs[1]
    /\ DOMAIN scenes[curBuffer]["cvs"].m # {}
    /\ cvCount = 0

\* C10: currentFrame starts at 1, every encoded frame adds exactly 1 to it,
\* and no other step changes it.
C10_FrameCounter ==
    /\ currentFrame = 1
    /\ [][IF pc = "draw" /\ pc' = "encoded"
          THEN currentFrame' = currentFrame + 1
          ELSE currentFrame' = currentFrame]_vars

C10_Witness ==
    /\ currentFrame = 3
    /\ call.op \in DrawOps

\* The glyph and line of every primitive of a text.
Lines(prims) ==
    [i \in 1 .. Len(prims) |-> [glyph |-> prims[i].glyph, line |-> prims[i].line]]

\* The last call was a text lookup that hit.
LookupHit ==
    \/ call.op \in {"renderText", "renderTextBox"} /\ call.hit
    \/ call.op = "renderCachedText" /\ call.ret

\* C11: two keys are equal exactly when str, size, align and breakRowWidth
\* all match; every key rendered in the frame has an entry of its own in the
\* text cache holding its own layout, and a lookup that hits appends
\* primitives of the layout of the key looked up, never of another key,
\* also when the hashes of the two keys collide.
C11_KeysDistinct ==
    /\ \A k1 \in Keys, k2 \in Keys : KeyEq(k1, k2) <=> k1 = k2
    /\ hist.now \subseteq DOMAIN textCache
    /\ \A k \in DOMAIN textCache : Lines(textCache[k].prims) = Shape(k)
    /\ LookupHit => Lines(call.out) = Take(Shape(call.key), Len(call.out))

C11_Witness ==
    /\ {KeyAB, KeyABw} \subseteq hist.now
    /\ {KeyAB, KeyABw} \subseteq DOMAIN textCache
    /\ HashOf[KeyAB] = HashOf[KeyABw]
    /\ textCache[KeyAB].prims # textCache[KeyABw].prims
    /\ LookupHit
    /\ call.key = KeyABw
    /\ Lines(call.out) = Shape(KeyABw)
    /\ Lines(call.out) # Shape(KeyAB)

\* Positions of the primitives the buffer took before the run.
Prefilled ==
    {i \in {0, hist.subs.base \div 2, hist.subs.base - 1} :
        0 <= i /\ i < hist.subs.base}

\* C12: primCount is the number of primitives accepted (not dropped) since
\* the buffer became current, and the current primitive arena holds them in
\* the order they were submitted.
C12_PrimCountAndOrder ==
    /\ primCount = hist.subs.base + Len(hist.subs.seq)
    /\ \A i \in Prefilled :
        Read(scenes[curBuffer]["prims"], i) = hist.subs.item
    /\ \A i \in 1 .. Len(hist.subs.seq) :
        Read(scenes[curBuffer]["prims"], hist.subs.base + i - 1)
            = hist.subs.seq[i]

C12_Witness ==
    /\ call.op = "fillPath"
    /\ call.count >= MinPathPoints
    /\ call.out = <<>>
    /\ primCount = maxPrims
    /\ Len(hist.subs.seq) = NearCap
    /\ hist.subs.seq[1] # hist.subs.seq[NearCap]

\* The step was a path call with fewer points than its path type needs.
Malformed ==
    \/ Called("fillPath") /\ call'.count < MinPathPoints
    \/ Called("fillCubicPath") /\ call'.count < MinCubicPoints

\* C13 as stated: fillPath / fillCubicPath with fewer points than the path
\* type needs writes nothing (the counts, the cursors and the arena contents
\* stay as they were) and hands the caller a boolean or sentinel result
\* telling of the rejection.
C13_MalformedReported ==
    [][Malformed =>
            /\ UNCHANGED mach
            /\ fault' = fault
            /\ "ret" \in DOMAIN call'
            /\ call'.ret \in {FALSE, 0}]_vars

\* C13, amended: such a call writes nothing and is not fatal; being a call
\* of a void method it has no result.
C13_MalformedRejected ==
    [][Malformed =>
            /\ UNCHANGED mach
            /\ fault' = fault
            /\ "ret" \notin DOMAIN call']_vars

C13_Witness ==
    /\ call.op \in {"fillPath", "fillCubicPath"}
    /\ call.count < (IF call.op = "fillPath" THEN MinPathPoints
                     ELSE MinCubicPoints)
    /\ call.out = <<>>
    /\ "ret" \notin DOMAIN call
    /\ ~fault
    /\ primCount > 0 /\ primCount < maxPrims
    /\ cvCount > 0 /\ cvCount < maxCvs

\* The step looked `key` up, by any of the three text calls, and hit.
LookedUpAndHit(key) ==
    \/ /\ Called("renderCachedText")
       /\ call'.key = key /\ call'.ret
    \/ /\ Called("renderText") \/ Called("renderTextBox")
       /\ call'.key = key /\ call'.hit

\* The step looked `key` up.
LookedUp(key) ==
    /\ Called("renderCachedText") \/ Called("renderText") \/ Called("renderTextBox")
    /\ call'.key = key

\* C14: no entry in use is pruned before its last read of the frame: a key
\* inserted or hit in the frame, also one drawn for the first time in it, is
\* found by every later lookup of it in the frame, and entries leave the
\* cache only in the step that ends the frame.
C14_InUseEntryFound ==
    [][/\ \A key \in hist.now :
            /\ key \in DOMAIN textCache
            /\ LookedUp(key) =>
                  /\ LookedUpAndHit(key)
                  /\ key \in DOMAIN textCache'
                  /\ textCache'[key].lastFrame = currentFrame
       /\ ~(DOMAIN textCache \subseteq DOMAIN textCache') =>
            /\ pc = "draw" /\ pc' = "encoded"
            /\ currentFrame' = currentFrame + 1]_vars

C14_Witness ==
    /\ currentFrame > InitialFrame
    /\ pc = "draw"
    /\ call.op = "renderCachedText"
    /\ call.ret
    /\ call.key \in hist.now
    /\ hist.shapes[call.key] = 1
    /\ call.key \notin hist.last
    /\ textCache[call.key].lastFrame = currentFrame

\* The primitives of the current buffer.
CurrentPrims == Held(scenes[curBuffer]["prims"], primCount)

C16_HandleWithinCount ==
    [][/\ Called("addxform") => call'.ret < xformCount'
       /\ Called("addPaint") => call'.ret < paintCount']_vars

\* C17: the lastFrame of every text cache entry is at least 1 and at most
\* currentFrame; right after a prune pass it is currentFrame or
\* currentFrame - 1; and an entry with the default lastFrame (0) matches no
\* value currentFrame takes, so a prune pass removes it.
C17_LastFrameRange ==
    /\ \A k \in DOMAIN textCache :
        /\ textCache[k].lastFrame >= 1
        /\ textCache[k].lastFrame <= currentFrame
        /\ pc = "encoded" =>
              textCache[k].lastFrame \in {currentFrame, currentFrame - 1}
    /\ currentFrame # DefaultLastFrame
    /\ \A k \in Keys :
        k \notin DOMAIN Prune(Insert(textCache, k, Info(DefaultLastFrame, <<>>)),
                              currentFrame)

C17_Witness ==
    /\ pc = "encoded"
    /\ currentFrame > InitialFrame + 1
    /\ \E k \in DOMAIN textCache : textCache[k].lastFrame = currentFrame - 1
    /\ \E k \in hist.before : k \notin DOMAIN textCache


=============================================================================
